---- MODULE Spec2Model ----
(***************************************************************************)
(* State-machine model of app.py: the /tiktok/mp3 handler (tiktok_mp3),    *)
(* the token verifier (verify_jwt_and_get_user), the quota ledger          *)
(* (increment_usage over the psycopg2 connection pool), the URL validator  *)
(* (is_valid_tiktok_url) and the download -> transcode -> stream pipeline  *)
(* with its temporary workspace.                                           *)
(*                                                                         *)
(* Library behaviour the handler relies on is modelled as the library      *)
(* implements it:                                                          *)
(*  - psycopg2 opens a transaction at the first execute() of a connection  *)
(*    (autocommit is off by default); "with conn.cursor()" closes the      *)
(*    cursor only; pool.putconn() rolls back a connection that is still    *)
(*    inside a transaction (or closes it) before it is pooled again;       *)
(*  - Flask answers an exception that leaves the view function with its    *)
(*    generic 500 page (an HTML body, not JSON);                           *)
(*  - a generator's try/finally runs only if the generator body has been   *)
(*    entered; closing a generator suspended at a yield raises             *)
(*    GeneratorExit there, which runs the finally block.                   *)
(***************************************************************************)
EXTENDS Integers, Sequences, FiniteSets, TLC

\* ------------------------------------------------------------------ bounds
NumWorkers == 2       \* threads of the worker pool (app.run(threaded=True))
MaxHour    == 1       \* the clock runs over the hours 0..MaxHour
MaxDirs    == 2       \* names tempfile.mkdtemp can give out: directories existing at once
MaxChunks  == 2       \* the audio file holds at most MaxChunks full chunks plus a rest
MaxUrlLen  == 2       \* length of the generated URL strings (in characters of UrlChars)

\* --------------------------------------------------------------- constants
QUOTA_PER_HOUR == 30
ChunkSize      == 8192
minconn        == 1
maxconn        == 20
MinutesPerHour == 60

Workers == 1..NumWorkers
Users   == {"u1", "u2"}
Hours   == 0..MaxHour

Min(a, b) == IF a < b THEN a ELSE b

\* ----------------------------------------------------------------- strings
\* A string is a sequence of characters.  The characters are the pieces the
\* validator's pattern is made of, a filler and a blank (whitespace).
UrlChars == {"tiktok", ".", "com", "x", " "}

SeqsUpTo(S, n) == UNION {[1..k -> S] : k \in 0..n}

\* str.strip(): leading and trailing whitespace removed.
RECURSIVE lstrip(_)
lstrip(s) == IF s # <<>> /\ Head(s) = " " THEN lstrip(Tail(s)) ELSE s

RECURSIVE rstrip(_)
rstrip(s) == IF s # <<>> /\ s[Len(s)] = " " THEN rstrip(SubSeq(s, 1, Len(s) - 1)) ELSE s

strip(s) == rstrip(lstrip(s))

\* The pattern of is_valid_tiktok_url, r"(vm\.tiktok\.com|tiktok\.com)": two
\* alternatives of literal characters.
UrlPattern == {<<"vm", ".", "tiktok", ".", "com">>, <<"tiktok", ".", "com">>}

\* re.search(pattern, s): some alternative matches at some position of s.
MatchesAt(p, s, i) == /\ i + Len(p) - 1 <= Len(s)
                      /\ \A k \in 1..Len(p) : s[i + k - 1] = p[k]

re_search(pat, s) == \E i \in 1..Len(s) : \E p \in pat : MatchesAt(p, s, i)

\* The pattern with its dots left unescaped, r"(vm.tiktok.com|tiktok.com)":
\* a dot of the pattern matches any character.
MatchesAtLoose(p, s, i) == /\ i + Len(p) - 1 <= Len(s)
                           /\ \A k \in 1..Len(p) : p[k] = "." \/ s[i + k - 1] = p[k]

is_valid_unescaped_dot(url) ==
  \E i \in 1..Len(url) : \E p \in UrlPattern : MatchesAtLoose(p, url, i)

is_valid_tiktok_url(url) == re_search(UrlPattern, url)

\* ------------------------------------------------------------------ tokens
\* What jwt.decode and the key-set lookup read of a bearer token.
JWT_ISSUER   == "issuer"
JWT_AUDIENCE == "authenticated"
NoneUser     == "<None>"

GoodToken(u) == [wf |-> TRUE, kid |-> TRUE, alg |-> "ES256", sig |-> TRUE,
                 iss |-> JWT_ISSUER, aud |-> JWT_AUDIENCE, expired |-> FALSE, sub |-> u]

\* A token with one defect: not a JWT at all, a key id the key set does not
\* hold, another algorithm, a bad signature, a wrong or missing issuer or
\* audience, expired, no "sub" claim, an empty "sub" claim.
BadTokens ==
  LET g == GoodToken("u1") IN
  {[g EXCEPT !.wf = FALSE], [g EXCEPT !.kid = FALSE], [g EXCEPT !.alg = "HS256"],
   [g EXCEPT !.sig = FALSE], [g EXCEPT !.iss = "other"], [g EXCEPT !.iss = "<missing>"],
   [g EXCEPT !.aud = "other"], [g EXCEPT !.aud = "<missing>"],
   [g EXCEPT !.expired = TRUE], [g EXCEPT !.sub = "<missing>"], [g EXCEPT !.sub = ""]}

\* The Authorization header: its scheme prefix ("" when the header is
\* absent) and the token after the first blank.
NoAuth == [scheme |-> "", token |-> [GoodToken("u1") EXCEPT !.wf = FALSE]]

AllHeaders == {NoAuth}
              \cup {[scheme |-> "Basic", token |-> GoodToken(u)] : u \in Users}
              \cup {[scheme |-> "Bearer", token |-> t] : t \in BadTokens}
              \cup {[scheme |-> "Bearer", token |-> GoodToken(u)] : u \in Users}

FewHeaders == {NoAuth, [scheme |-> "Bearer", token |-> GoodToken("u1")]}

\* auth.startswith("Bearer ")
startswith_Bearer(auth) == auth.scheme = "Bearer"

\* A lookup that gives a key for any token it can parse, whatever its key id.
signing_key_for_any_kid(token) == token.wf

\* get_jwk_client().get_signing_key_from_jwt(token) returns a key (it raises
\* when the token cannot be parsed or its key id is not in the key set).
signing_key_found(token) == token.wf /\ token.kid

\* A decode that does not verify the expiry (options verify_exp off).
jwt_decode_ignores_exp(token) == /\ token.alg = "ES256"
                                 /\ token.sig
                                 /\ token.aud = JWT_AUDIENCE
                                 /\ token.iss = JWT_ISSUER

\* jwt.decode(token, key, algorithms=["ES256"], audience=..., issuer=...)
\* returns the payload (it raises on any failed check).
jwt_decode_ok(token) == /\ token.alg = "ES256"
                        /\ token.sig
                        /\ ~token.expired
                        /\ token.aud = JWT_AUDIENCE
                        /\ token.iss = JWT_ISSUER

\* verify_jwt_and_get_user: the user id, or None.
verify_jwt_and_get_user(auth) ==
  IF ~startswith_Bearer(auth) THEN NoneUser
  ELSE IF ~signing_key_found(auth.token) THEN NoneUser      \* except Exception
  ELSE IF ~jwt_decode_ok(auth.token) THEN NoneUser          \* except Exception
  ELSE IF auth.token.sub = "<missing>" THEN NoneUser        \* KeyError, except Exception
  ELSE auth.token.sub

\* "not user_id": None and the empty string are falsy.
falsy_user(user) == user = NoneUser \/ user = ""

\* ---------------------------------------------------------------- payloads
\* The request body as request.get_json(silent=True) and line 156 read it.
\*   kind: "nobody", "notjson" (get_json gives None), or the JSON type of the
\*         document: "null", "num", "str", "list", "dict" ("unread" before the
\*         handler has read the body);
\*   n:    the number, the length of the string or list, or the number of
\*         keys of the dict other than "url";
\*   ut:   the type of the dict's "url" member ("absent" when there is none);
\*   us:   the string, when ut = "str".
Body(kind, n, ut, us) == [kind |-> kind, n |-> n, ut |-> ut, us |-> us]

ExtraUrls == {<<"tiktok", ".", "com">>,
              <<"x", "tiktok", ".", "com", "x">>,
              <<"vm", ".", "tiktok", ".", "com">>,
              <<" ", "tiktok", ".", "com", " ">>,
              <<"tiktok", "x", "com">>,
              <<"vm", ".", "tiktok", "x", "com">>,
              <<"tiktok", ".", "x", "com">>,
              <<"com", ".", "tiktok">>}

UrlStrings == SeqsUpTo(UrlChars, MaxUrlLen) \cup ExtraUrls

AllBodies ==
  {Body(k, 0, "absent", <<>>) : k \in {"nobody", "notjson", "null"}}
  \cup {Body(k, n, "absent", <<>>) : k \in {"num", "str", "list", "dict"}, n \in {0, 1}}
  \cup {Body("dict", n, t, <<>>) : n \in {0, 1}, t \in {"null", "num", "list"}}
  \cup {Body("dict", 0, "str", s) : s \in UrlStrings}

FewBodies == {Body("nobody", 0, "absent", <<>>),
              Body("dict", 0, "str", <<"tiktok", ".", "com">>)}

\* request.get_json(silent=True) is None
json_is_None(body) == body.kind \in {"nobody", "notjson", "null"}

\* Python truth value of the parsed document ("if data").
truthy(body) == /\ ~json_is_None(body)
                /\ \/ body.n # 0
                   \/ body.kind = "dict" /\ body.ut # "absent"

\* Line 156: url = data.get("url").strip() if data else None
\*   r = "raise": AttributeError (data has no .get, or the member has no .strip)
\*   r = "none":  url is None
\*   r = "str":   url is the stripped string s
get_url(body) ==
  IF ~truthy(body) THEN [r |-> "none", s |-> <<>>]
  ELSE IF body.kind # "dict" THEN [r |-> "raise", s |-> <<>>]
  ELSE IF body.ut # "str" THEN [r |-> "raise", s |-> <<>>]
  ELSE [r |-> "str", s |-> strip(body.us)]

\* Line 158: not url or not is_valid_tiktok_url(url)
url_rejected(u) == u.r = "none" \/ u.s = <<>> \/ ~is_valid_tiktok_url(u.s)

\* --------------------------------------------------------------- responses
NoResp == [status |-> 0, kind |-> "none", error |-> "", limit |-> 0,
           reset_at |-> -1, details |-> "", length |-> -1]

JsonError(status, msg) == [NoResp EXCEPT !.status = status, !.kind = "json", !.error = msg]

\* Flask's answer to an exception that leaves the view function.
Uncaught == [NoResp EXCEPT !.status = 500, !.kind = "html"]

\* ------------------------------------------------------------------- state
VARIABLES
  threads,     \* the worker threads that serve requests (fixed by Init)
  now,         \* the wall clock, in minutes (the server's and the store's)
  pc,          \* pc[w]: where worker w is in tiktok_mp3
  req,         \* req[w]: the request w is serving: method, Authorization header, body
  loc,         \* loc[w]: the handler's locals: user_id, conn, count, url, temp_dir, mp3_size
  resp,        \* resp[w]: the response returned for the request (NoResp before)
  gen,         \* gen[w]: the generator generate() of the response being streamed
  ran,         \* ran[w]: the child processes run for the request, with their exit status
  jwk_client,  \* the global jwk_client: 0 (None), or the instance it refers to
  jwk_made,    \* PyJWKClient instances constructed so far
  db_pool,     \* the global db_pool: 0 (None), or the pool it refers to
  pools,       \* the connection pools constructed so far: idle and checked-out connections
  txn,         \* txn[w]: the transaction open on the connection w holds
  api_usage,   \* the committed rows of table api_usage: (user_id, hour_bucket) -> count
  fs,          \* the temporary directories: fs[d] says whether directory d exists
  audio,       \* audio[w]: the size of audio.mp3 in the workspace of w's request (-1: no file)
  lost         \* history: lost[u] says that an upsert of user u in the current hour
               \* bucket has ended without its count being stored

vars == <<threads, now, pc, req, loc, resp, gen, ran, jwk_client, jwk_made,
          db_pool, pools, txn, api_usage, fs, audio, lost>>

\* The clock values the model visits: the first and the last minute of each hour.
Times == {h * MinutesPerHour + m : h \in Hours, m \in {0, MinutesPerHour - 1}}

\* date_trunc('hour', now()) and datetime.replace(minute=0, second=0, microsecond=0)
hour_of(t)    == t \div MinutesPerHour
hour_start(t) == hour_of(t) * MinutesPerHour

Keys == Users \X Hours

\* Audio file sizes ffmpeg may leave: full chunks plus nothing or one byte.
Sizes == {k * ChunkSize + r : k \in 0..MaxChunks, r \in {0, 1}}

DirNames == 1..MaxDirs

NoReq  == [method |-> "", auth |-> NoAuth, body |-> Body("unread", 0, "absent", <<>>)]
\* The handler's locals, and history of the request's upsert: the hour
\* bucket it addressed, the least ordinal the request can have among the
\* requests of its user in that bucket (nth; the ordinal itself when exact),
\* and the results (row and count) other requests got from their upserts
\* while this one was inside increment_usage (rivals).
NoLoc  == [user_id |-> NoneUser, conn |-> 0, exc |-> FALSE, count |-> 0,
           url |-> <<>>, temp_dir |-> 0, mp3_size |-> -1,
           hour |-> -1, nth |-> 0, exact |-> FALSE, rivals |-> {}]
NoGen  == [state |-> "none", pos |-> 0, chunks |-> <<>>]
NoTxn  == [open |-> FALSE, key |-> <<"u1", 0>>, val |-> 0]

\* The inputs: every header and body when a single thread serves the
\* requests one after the other, a few of each when several threads run.
Rich == Cardinality(threads) = 1

Requests == IF Rich THEN {"POST", "OPTIONS"} \X AllHeaders
            ELSE {<<"OPTIONS", NoAuth>>} \cup ({"POST"} \X FewHeaders)

Bodies == IF Rich THEN AllBodies ELSE FewBodies

\* What the transcoder leaves at audio_path when it exits 0.
Outputs == IF Rich THEN Sizes \cup {-1} ELSE {-1, 1}

\* A child process that was started and has exited: the tool, its exit
\* status, and the size of the file it wrote (-1: none, or not followed).
Child(tool, rc, out) == [tool |-> tool, rc |-> rc, out |-> out]

\* The rows of api_usage for the hour the model starts in may hold any of
\* these counts (the table lives in the shared store and outlives the
\* process); the rows of later hours do not exist yet (0).
InitCounts == {0, QUOTA_PER_HOUR - 1, QUOTA_PER_HOUR}

InitCommon ==
  /\ now = 0
  /\ pc = [w \in Workers |-> "idle"]
  /\ req = [w \in Workers |-> NoReq]
  /\ loc = [w \in Workers |-> NoLoc]
  /\ resp = [w \in Workers |-> NoResp]
  /\ gen = [w \in Workers |-> NoGen]
  /\ ran = [w \in Workers |-> {}]
  /\ jwk_client = 0
  /\ jwk_made = 0
  /\ db_pool = 0
  /\ pools = <<>>
  /\ txn = [w \in Workers |-> NoTxn]
  /\ \E c \in InitCounts : api_usage = [k \in Keys |-> IF k[2] = 0 THEN c ELSE 0]
  /\ fs = [d \in DirNames |-> FALSE]
  /\ audio = [w \in Workers |-> -1]
  /\ lost = [u \in Users |-> FALSE]

Init == threads = Workers /\ InitCommon

InitSeq == threads = {1} /\ InitCommon

\* Shorthands for the updates of one worker's state.
Goto(w, l)    == pc' = [pc EXCEPT ![w] = l]
Send(w, r)    == resp' = [resp EXCEPT ![w] = r]
Respond(w, r) == Send(w, r) /\ Goto(w, "done")

\* ------------------------------------------------------------ the handler
\* A request arrives and is given to an idle worker thread.
Receive(w) ==
  /\ w \in threads
  /\ pc[w] = "idle"
  /\ \E r \in Requests :
       req' = [req EXCEPT ![w] = [NoReq EXCEPT !.method = r[1], !.auth = r[2]]]
  /\ Goto(w, "method")
  /\ UNCHANGED <<threads, now, loc, resp, gen, ran, jwk_client, jwk_made,
                 db_pool, pools, txn, api_usage, lost, fs, audio>>

\* Lines 137-138: a pre-flight request is answered at once.
Preflight(w) ==
  /\ pc[w] = "method"
  /\ req[w].method = "OPTIONS"
  /\ Respond(w, [NoResp EXCEPT !.status = 200, !.kind = "empty"])
  /\ UNCHANGED <<threads, now, req, loc, gen, ran, jwk_client, jwk_made,
                 db_pool, pools, txn, api_usage, lost, fs, audio>>

\* Lines 140, 79-86: the header check of verify_jwt_and_get_user and, for a
\* bearer token, the test "jwk_client is None" of get_jwk_client.
CheckHeader(w) ==
  /\ pc[w] = "method"
  /\ req[w].method = "POST"
  /\ IF ~startswith_Bearer(req[w].auth)
       THEN Respond(w, JsonError(401, "Unauthorized"))
       ELSE /\ Goto(w, IF jwk_client = 0 THEN "jwk_init" ELSE "decode")
            /\ UNCHANGED resp
  /\ UNCHANGED <<threads, now, req, loc, gen, ran, jwk_client, jwk_made,
                 db_pool, pools, txn, api_usage, lost, fs, audio>>

\* Lines 71-72: get_jwk_client constructs the client and stores it in the global.
get_jwk_client_init(w) ==
  /\ pc[w] = "jwk_init"
  /\ jwk_made' = jwk_made + 1
  /\ jwk_client' = jwk_made + 1
  /\ Goto(w, "decode")
  /\ UNCHANGED <<threads, now, req, loc, resp, gen, ran,
                 db_pool, pools, txn, api_usage, lost, fs, audio>>

\* Lines 86-102 and 141-144: the token is verified; an unauthenticated
\* request is answered 401; otherwise increment_usage is entered and
\* init_db_pool tests "db_pool is None".
Decode(w) ==
  /\ pc[w] = "decode"
  /\ LET user == verify_jwt_and_get_user(req[w].auth) IN
       IF falsy_user(user)
         THEN /\ Respond(w, JsonError(401, "Unauthorized"))
              /\ UNCHANGED loc
         ELSE /\ loc' = [loc EXCEPT ![w].user_id = user]
              /\ Goto(w, IF db_pool = 0 THEN "pool_init" ELSE "getconn")
              /\ UNCHANGED resp
  /\ UNCHANGED <<threads, now, req, gen, ran, jwk_client, jwk_made,
                 db_pool, pools, txn, api_usage, lost, fs, audio>>

\* --------------------------------------------------------- the quota ledger
\* Lines 50-57: init_db_pool constructs the pool (SimpleConnectionPool opens
\* minconn connections at once) and stores it in the global; the constructor
\* raises when the store cannot be reached.
init_db_pool_new(w) ==
  /\ pc[w] = "pool_init"
  /\ \/ /\ pools' = Append(pools, [idle |-> minconn, used |-> 0])
        /\ db_pool' = Len(pools) + 1
        /\ Goto(w, "getconn")
        /\ UNCHANGED <<resp, loc>>
     \/ /\ Respond(w, Uncaught)
        /\ loc' = [loc EXCEPT ![w].exc = TRUE]
        /\ UNCHANGED <<pools, db_pool>>
  /\ UNCHANGED <<threads, now, req, gen, ran, jwk_client, jwk_made,
                 txn, api_usage, lost, fs, audio>>

\* Lines 59-60 and 108: get_conn takes a connection from the pool the global
\* refers to: an idle one, or a new one while fewer than maxconn are out; it
\* raises when the pool is exhausted or the store cannot be reached.  The
\* call is before the try block: nothing is released when it raises.
get_conn(w) ==
  /\ pc[w] = "getconn"
  /\ LET p == db_pool IN
       \/ /\ pools[p].idle > 0
          /\ pools' = [pools EXCEPT ![p].idle = @ - 1, ![p].used = @ + 1]
          /\ loc' = [loc EXCEPT ![w].conn = p]
          /\ Goto(w, "execute")
          /\ UNCHANGED resp
       \/ /\ pools[p].idle = 0
          /\ pools[p].used < maxconn
          /\ pools' = [pools EXCEPT ![p].used = @ + 1]
          /\ loc' = [loc EXCEPT ![w].conn = p]
          /\ Goto(w, "execute")
          /\ UNCHANGED resp
       \/ /\ pools[p].idle = 0
          /\ Respond(w, Uncaught)
          /\ loc' = [loc EXCEPT ![w].exc = TRUE]
          /\ UNCHANGED pools
  /\ UNCHANGED <<threads, now, req, gen, ran, jwk_client, jwk_made,
                 db_pool, txn, api_usage, lost, fs, audio>>

\* The row the upsert of worker w addresses: the store computes the bucket.
upsert_key(w) == <<loc[w].user_id, hour_of(now)>>

\* INSERT ... ON CONFLICT DO UPDATE SET count = count + 1 RETURNING count,
\* inside the transaction of the connection: the new count (1 for a new row).
upsert_count(key) == api_usage[key] + 1

\* Where a worker is inside increment_usage and has not run its statement yet.
InsideIncrement == {"pool_init", "getconn", "execute"}

\* Lines 110-120: cur.execute and fetchone.  The statement opens a
\* transaction on the connection and locks the row; it waits while another
\* open transaction holds the same row.  It may fail with a store error.
execute_upsert(w) ==
  /\ pc[w] = "execute"
  /\ \/ /\ \A v \in Workers \ {w} : ~(txn[v].open /\ txn[v].key = upsert_key(w))
        /\ txn' = [txn EXCEPT ![w] = [open |-> TRUE, key |-> upsert_key(w),
                                      val |-> upsert_count(upsert_key(w))]]
        /\ loc' = [v \in Workers |->
                     IF v = w
                       THEN [loc[w] EXCEPT !.count = upsert_count(upsert_key(w)),
                                           !.hour = hour_of(now),
                                           !.nth = api_usage[upsert_key(w)] + 1
                                                   + (IF lost[loc[w].user_id] THEN 1 ELSE 0),
                                           !.exact = ~lost[loc[w].user_id]]
                     ELSE IF pc[v] \in InsideIncrement
                       THEN [loc[v] EXCEPT !.rivals = @ \cup
                               {<<upsert_key(w), upsert_count(upsert_key(w))>>}]
                     ELSE loc[v]]
     \/ /\ loc' = [loc EXCEPT ![w].exc = TRUE]
        /\ UNCHANGED txn
  /\ Goto(w, "release")
  /\ UNCHANGED <<threads, now, req, resp, gen, ran, jwk_client, jwk_made,
                 db_pool, pools, api_usage, lost, fs, audio>>

\* What the store holds once the connection of worker w has been put back:
\* putconn rolls back a connection that is inside a transaction (or closes
\* it), and increment_usage never commits, so the rows are the committed
\* rows as they were.
rows_after_putconn(w) == api_usage

\* A finally block with a return in it: the pending exception is dropped.
swallowed(exc) == FALSE

\* Lines 121-122: the finally block has no return, so an exception of the
\* try block is raised again once release_conn has run.
reraised(exc) == exc

\* Lines 62-63 and 121-122: release_conn in the finally block.  putconn is
\* called on the pool the global refers to now; a pool that did not hand the
\* connection out raises PoolError and keeps counting the connection as
\* checked out (the connection is closed, and its transaction rolled back,
\* when the pool object is collected).  Otherwise the connection is pooled
\* again while fewer than minconn are idle, and closed if not; after a failed
\* statement it may have lost its server (putconn closes it) or not (putconn
\* rolls it back and pools it).  An exception of the try block, or this one, leaves
\* increment_usage and the handler.
release_conn(w) ==
  /\ pc[w] = "release"
  /\ LET p == db_pool IN
       IF p # loc[w].conn
         THEN /\ Respond(w, Uncaught)
              /\ loc' = [loc EXCEPT ![w].conn = 0, ![w].exc = TRUE]
              /\ UNCHANGED <<pools, api_usage>>
         ELSE /\ \E kept \in (IF loc[w].exc THEN {TRUE, FALSE} ELSE {TRUE}) :
                   pools' = [pools EXCEPT ![p].used = @ - 1,
                                          ![p].idle = IF kept /\ @ < minconn THEN @ + 1 ELSE @]
              /\ api_usage' = rows_after_putconn(w)
              /\ loc' = [loc EXCEPT ![w].conn = 0]
              /\ IF reraised(loc[w].exc)
                   THEN Respond(w, Uncaught)
                   ELSE Goto(w, "quota") /\ UNCHANGED resp
  /\ txn' = [txn EXCEPT ![w] = NoTxn]
  /\ lost' = IF /\ txn[w].open
                /\ txn[w].key[2] = hour_of(now)
                /\ api_usage'[txn[w].key] < txn[w].val
               THEN [lost EXCEPT ![txn[w].key[1]] = TRUE]
               ELSE lost
  /\ UNCHANGED <<threads, now, req, gen, ran, jwk_client, jwk_made, db_pool, fs, audio>>

\* Lines 146-148: datetime.now(timezone.utc).replace(minute=0, second=0, microsecond=0)
reset_at(t) == hour_start(t)

\* Lines 145-153: the quota check.
QuotaCheck(w) ==
  /\ pc[w] = "quota"
  /\ IF loc[w].count > QUOTA_PER_HOUR
       THEN Respond(w, [JsonError(429, "Quota exceeded") EXCEPT
                          !.limit = QUOTA_PER_HOUR, !.reset_at = reset_at(now)])
       ELSE Goto(w, "payload") /\ UNCHANGED resp
  /\ UNCHANGED <<threads, now, req, loc, gen, ran, jwk_client, jwk_made,
                 db_pool, pools, txn, api_usage, lost, fs, audio>>

\* The history of the upsert is kept until the request enters the pipeline.
Forget(l) == [l EXCEPT !.hour = -1, !.nth = 0, !.exact = FALSE, !.rivals = {}]

\* Lines 155-159: the body is read and the URL is checked.
ReadPayload(w) ==
  /\ pc[w] = "payload"
  /\ \E body \in Bodies :
       /\ req' = [req EXCEPT ![w].body = body]
       /\ LET u == get_url(body) IN
            IF u.r = "raise"
              THEN Respond(w, Uncaught) /\ UNCHANGED loc
            ELSE IF url_rejected(u)
              THEN Respond(w, JsonError(400, "Invalid or missing URL")) /\ UNCHANGED loc
            ELSE /\ loc' = [loc EXCEPT ![w] = [Forget(@) EXCEPT !.url = u.s]]
                 /\ Goto(w, "mkdtemp")
                 /\ UNCHANGED resp
  /\ UNCHANGED <<threads, now, gen, ran, jwk_client, jwk_made,
                 db_pool, pools, txn, api_usage, lost, fs, audio>>

\* ------------------------------------------------------------- the pipeline
\* A handler whose cleanup call is missing: the directory stays.
rmtree_skipped(f, d) == f

\* shutil.rmtree(temp_dir, ignore_errors=True): the directory and its files are gone.
rmtree(f, d) == [f EXCEPT ![d] = FALSE]

\* A handler that works in one directory of a fixed name.
FixedDir == {d \in DirNames : d = 1}

\* tempfile.mkdtemp gives a directory no request uses or has used under the
\* same name while it is still referred to: the least such name.
FreshDirs == {d \in DirNames : ~fs[d] /\ \A v \in Workers : loc[v].temp_dir # d}

\* Lines 161-163: the workspace is created.
mkdtemp(w) ==
  /\ pc[w] = "mkdtemp"
  /\ FreshDirs # {}
  /\ LET d == CHOOSE x \in FreshDirs : \A y \in FreshDirs : x <= y IN
       /\ fs' = [fs EXCEPT ![d] = TRUE]
       /\ loc' = [loc EXCEPT ![w].temp_dir = d]
  /\ Goto(w, "download")
  /\ UNCHANGED <<threads, now, req, resp, gen, ran, jwk_client, jwk_made,
                 db_pool, pools, txn, api_usage, lost, audio>>

\* The files of w's workspace once fs' is known: none when the directory is gone.
FilesFollow(w) == audio' = [audio EXCEPT ![w] = IF fs'[loc[w].temp_dir] THEN @ ELSE -1]

\* subprocess.run without check=True: a non-zero exit status raises nothing
\* and the handler goes on with its next step.
exit_status_ignored(w, tool) ==
  /\ Goto(w, IF tool = "yt_dlp" THEN "transcode" ELSE "ready")
  /\ UNCHANGED <<resp, fs, audio>>

\* Lines 222-228: except subprocess.CalledProcessError.
on_CalledProcessError(w, tool) ==
  /\ fs' = rmtree(fs, loc[w].temp_dir)
  /\ FilesFollow(w)
  /\ Respond(w, [JsonError(500, "Video download or MP3 encoding failed") EXCEPT
                   !.details = tool])

\* Lines 167-181: subprocess.run of the downloader, check=True.  The child
\* exits 0, or exits non-zero (CalledProcessError, with its stderr), or
\* cannot be started (OSError, which no except clause of the handler
\* matches), or never exits: subprocess.run is called without a timeout and
\* waits for the exit of the child, so the thread stays in the call.
Download(w) ==
  /\ pc[w] = "download"
  /\ \/ /\ ran' = [ran EXCEPT ![w] = @ \cup {Child("yt_dlp", 0, -1)}]
        /\ Goto(w, "transcode")
        /\ UNCHANGED <<resp, fs, audio>>
     \/ /\ ran' = [ran EXCEPT ![w] = @ \cup {Child("yt_dlp", 1, -1)}]
        /\ on_CalledProcessError(w, "yt_dlp")
     \/ /\ Respond(w, Uncaught)
        /\ UNCHANGED <<ran, fs, audio>>
     \/ /\ Goto(w, "wait_yt_dlp")
        /\ UNCHANGED <<ran, resp, fs, audio>>
  /\ UNCHANGED <<threads, now, req, loc, gen, jwk_client, jwk_made,
                 db_pool, pools, txn, api_usage, lost>>

\* Lines 184-196: subprocess.run of the transcoder, check=True.  On exit 0
\* audio.mp3 holds s bytes (or, the tool breaking its contract, is missing).
\* The other outcomes are those of the downloader.
Transcode(w) ==
  /\ pc[w] = "transcode"
  /\ \/ /\ \E s \in Outputs :
             /\ ran' = [ran EXCEPT ![w] = @ \cup {Child("ffmpeg", 0, s)}]
             /\ audio' = [audio EXCEPT ![w] = s]
        /\ Goto(w, "ready")
        /\ UNCHANGED <<resp, fs>>
     \/ /\ ran' = [ran EXCEPT ![w] = @ \cup {Child("ffmpeg", 1, -1)}]
        /\ on_CalledProcessError(w, "ffmpeg")
     \/ /\ Respond(w, Uncaught)
        /\ UNCHANGED <<ran, fs, audio>>
     \/ /\ Goto(w, "wait_ffmpeg")
        /\ UNCHANGED <<ran, resp, fs, audio>>
  /\ UNCHANGED <<threads, now, req, loc, gen, jwk_client, jwk_made,
                 db_pool, pools, txn, api_usage, lost>>

\* Lines 198-220: os.path.getsize (OSError when the file is missing) and the
\* streaming response; the body of generate() has not started.
Ready(w) ==
  /\ pc[w] = "ready"
  /\ IF audio[w] < 0
       THEN Respond(w, Uncaught) /\ UNCHANGED <<loc, gen>>
       ELSE /\ loc' = [loc EXCEPT ![w].mp3_size = audio[w]]
            /\ Send(w, [NoResp EXCEPT !.status = 200, !.kind = "audio",
                                       !.length = audio[w]])
            /\ gen' = [gen EXCEPT ![w] = [NoGen EXCEPT !.state = "unstarted"]]
            /\ Goto(w, "streaming")
  /\ UNCHANGED <<threads, now, req, ran, jwk_client, jwk_made,
                 db_pool, pools, txn, api_usage, lost, fs, audio>>

\* A read with a buffer one byte short.
file_read_short(size, pos) == Min(ChunkSize - 1, size - pos)

\* f.read(8192) at position pos of a file of size bytes: the number of bytes read.
file_read(size, pos) == Min(ChunkSize, size - pos)

\* Lines 201-209: the consumer pulls the next item of generate().  The body
\* runs to the next yield, or, on an empty read, through the finally block
\* to its end.
Pull(w) ==
  /\ pc[w] = "streaming"
  /\ gen[w].state \in {"unstarted", "suspended"}
  /\ LET n == file_read(audio[w], gen[w].pos) IN
       IF n > 0
         THEN /\ gen' = [gen EXCEPT ![w] = [state |-> "suspended", pos |-> @.pos + n,
                                            chunks |-> Append(@.chunks, n)]]
              /\ UNCHANGED <<fs, audio, pc>>
         ELSE /\ gen' = [gen EXCEPT ![w].state = "exhausted"]
              /\ fs' = rmtree(fs, loc[w].temp_dir)
              /\ FilesFollow(w)
              /\ Goto(w, "closed")
  /\ UNCHANGED <<threads, now, req, loc, resp, ran, jwk_client, jwk_made,
                 db_pool, pools, txn, api_usage, lost>>

\* The consumer goes away and the server closes the response iterable.
\* GeneratorExit is raised at the yield generate() is suspended at, and the
\* finally block runs; a generate() whose body was never entered has nothing
\* to run.
Disconnect(w) ==
  /\ pc[w] = "streaming"
  /\ IF gen[w].state = "suspended"
       THEN /\ fs' = rmtree(fs, loc[w].temp_dir)
            /\ FilesFollow(w)
            /\ gen' = [gen EXCEPT ![w].state = "closed"]
       ELSE /\ gen' = [gen EXCEPT ![w].state = "never_started"]
            /\ UNCHANGED <<fs, audio>>
  /\ Goto(w, "closed")
  /\ UNCHANGED <<threads, now, req, loc, resp, ran, jwk_client, jwk_made,
                 db_pool, pools, txn, api_usage, lost>>

\* The request is over; the worker thread is free for the next one.  What a
\* directory left behind holds is no longer followed.
Recycle(w) ==
  /\ pc[w] \in {"done", "closed"}
  /\ Goto(w, "idle")
  /\ req' = [req EXCEPT ![w] = NoReq]
  /\ loc' = [loc EXCEPT ![w] = NoLoc]
  /\ resp' = [resp EXCEPT ![w] = NoResp]
  /\ gen' = [gen EXCEPT ![w] = NoGen]
  /\ ran' = [ran EXCEPT ![w] = {}]
  /\ audio' = [audio EXCEPT ![w] = -1]
  /\ UNCHANGED <<threads, now, jwk_client, jwk_made, db_pool, pools, txn, api_usage, lost, fs>>

\* Time passes.
Tick ==
  /\ \E t \in Times : t > now /\ now' = t
  /\ lost' = IF hour_of(now') = hour_of(now) THEN lost ELSE [u \in Users |-> FALSE]
  /\ UNCHANGED <<threads, pc, req, loc, resp, gen, ran, jwk_client, jwk_made,
                 db_pool, pools, txn, api_usage, fs, audio>>

Next ==
  \/ \E w \in Workers :
       \/ Receive(w)
       \/ Preflight(w)
       \/ CheckHeader(w)
       \/ get_jwk_client_init(w)
       \/ Decode(w)
       \/ init_db_pool_new(w)
       \/ get_conn(w)
       \/ execute_upsert(w)
       \/ release_conn(w)
       \/ QuotaCheck(w)
       \/ ReadPayload(w)
       \/ mkdtemp(w)
       \/ Download(w)
       \/ Transcode(w)
       \/ Ready(w)
       \/ Pull(w)
       \/ Disconnect(w)
       \/ Recycle(w)
  \/ Tick

Spec == Init /\ [][Next]_vars

SpecSeq == InitSeq /\ [][Next]_vars

\* ------------------------------------------------------------------ claims
Key(w) == <<loc[w].user_id, loc[w].hour>>

Failed(w, tool) == \E c \in ran[w] : c.tool = tool /\ c.rc # 0

Workspace(w) == loc[w].temp_dir

RECURSIVE Sum(_)
Sum(q) == IF q = <<>> THEN 0 ELSE Head(q) + Sum(Tail(q))

\* The four ways a pipeline run ends that C1 names.
StreamedToEnd(w)   == pc[w] = "closed" /\ gen[w].state = "exhausted"
DownloadFailed(w)  == pc[w] = "done" /\ Failed(w, "yt_dlp")
TranscodeFailed(w) == pc[w] = "done" /\ Failed(w, "ffmpeg")
LeftMidStream(w)   == /\ pc[w] = "closed"
                      /\ gen[w].state # "exhausted"
                      /\ Len(gen[w].chunks) >= 1

\* C1: after a pipeline run that ends with the stream pulled to its end,
\* with a non-zero exit of the downloader or of the transcoder, or with the
\* consumer leaving after at least one chunk, the workspace the request
\* created no longer exists.
C1_WorkspaceRemoved ==
  \A w \in Workers :
    (StreamedToEnd(w) \/ DownloadFailed(w) \/ TranscodeFailed(w) \/ LeftMidStream(w))
      => Workspace(w) \in DirNames /\ ~fs[Workspace(w)]

\* The consumer left after the first chunk of a file of more than one chunk.
C1_Witness ==
  \E w \in Workers : /\ LeftMidStream(w)
                     /\ gen[w].pos < loc[w].mp3_size
                     /\ ~fs[Workspace(w)]

\* C2: when increment_usage has returned for the Nth request of a caller in
\* an hour bucket (the requests coming one after the other), it returned N
\* and the row of (caller, bucket) holds N; in a new bucket N starts at 1.
C2_StoredCountIsN ==
  \A w \in Workers :
    (pc[w] = "quota" /\ loc[w].exact)
      => loc[w].count = loc[w].nth /\ api_usage[Key(w)] = loc[w].nth

\* C3: of the requests one identity makes in one hour bucket, those numbered
\* up to 30 reach the pipeline stage and those numbered 31 or more are
\* answered 429 with limit 30, without a workspace and without a tool run.
C3_QuotaGate ==
  \A w \in Workers :
    /\ pc[w] = "payload" => loc[w].nth <= QUOTA_PER_HOUR
    /\ resp[w].status = 429 =>
         /\ resp[w].limit = QUOTA_PER_HOUR
         /\ Workspace(w) = 0
         /\ ran[w] = {}
         /\ loc[w].exact => loc[w].nth > QUOTA_PER_HOUR

\* The headers that carry a token passing every check.
ValidHeaders == {[scheme |-> "Bearer", token |-> GoodToken(u)] : u \in Users}

\* C4: a POST request without a valid bearer token is answered 401, and it
\* takes no connection, runs no upsert, creates no workspace and starts no
\* child process.
C4_Unauthenticated ==
  \A w \in Workers :
    (req[w].method = "POST" /\ req[w].auth \notin ValidHeaders)
      => /\ pc[w] \in {"method", "jwk_init", "decode", "done"}
         /\ pc[w] = "done" => resp[w].status = 401 /\ resp[w].kind = "json"
         /\ loc[w].conn = 0
         /\ ~txn[w].open
         /\ loc[w].hour = -1
         /\ loc[w].count = 0
         /\ Workspace(w) = 0
         /\ ran[w] = {}

\* An expired token, well signed, has been answered 401.
C4_Witness ==
  \E w \in Workers : /\ pc[w] = "done"
                     /\ req[w].method = "POST"
                     /\ req[w].auth.scheme = "Bearer"
                     /\ req[w].auth.token.expired
                     /\ resp[w].status = 401

\* The hostnames the validator recognizes, and a string holding one of them.
RecognizedHosts == {<<"vm", ".", "tiktok", ".", "com">>, <<"tiktok", ".", "com">>}

HasRecognizedHost(s) ==
  \E h \in RecognizedHosts : \E i \in 1..Len(s) :
    i + Len(h) - 1 <= Len(s) /\ SubSeq(s, i, i + Len(h) - 1) = h

\* C5: an authenticated, within-quota request whose URL holds no recognized
\* hostname fails the validation and is answered 400, without a workspace
\* and without a tool run.
C5_UnrecognizedUrl ==
  \A w \in Workers :
    (req[w].body.kind = "dict" /\ req[w].body.ut = "str"
       /\ ~HasRecognizedHost(req[w].body.us))
      => /\ ~is_valid_tiktok_url(req[w].body.us)
         /\ pc[w] = "done"
         /\ resp[w].status = 400
         /\ Workspace(w) = 0
         /\ ran[w] = {}

\* "tiktokxcom", which only a dot that matches any character would accept,
\* has been answered 400.
C5_Witness ==
  \E w \in Workers : /\ req[w].body.us = <<"tiktok", "x", "com">>
                     /\ req[w].body.ut = "str"
                     /\ resp[w].status = 400

\* C6: a POST request that fails is answered with a JSON object that has an
\* "error" member, and one that succeeds with the audio stream only.
C6_ErrorsAreJson ==
  \A w \in Workers :
    (req[w].method = "POST" /\ resp[w].status # 0)
      => IF resp[w].status = 200
           THEN resp[w].kind = "audio"
           ELSE resp[w].kind = "json" /\ resp[w].error # ""

\* A body without a usable URL: no body, not JSON, a JSON value that is not
\* an object, an object without "url", a "url" that is not a string, a "url"
\* that is empty or blank.
NoUsableUrl(b) ==
  \/ b.kind \in {"nobody", "notjson", "null", "num", "str", "list"}
  \/ b.kind = "dict" /\ b.ut # "str"
  \/ b.kind = "dict" /\ b.ut = "str" /\ \A i \in 1..Len(b.us) : b.us[i] = " "

\* C7: an authenticated, within-quota request whose body has no usable URL
\* is answered 400 and does not start the pipeline.
C7_MissingUrl ==
  \A w \in Workers :
    NoUsableUrl(req[w].body)
      => /\ pc[w] = "done"
         /\ resp[w].status = 400
         /\ Workspace(w) = 0
         /\ ran[w] = {}

\* C8: the reset_at of a 429 response is the start of the hour after the one
\* the request is handled in: later than the time of the request, and at
\* most one hour later.
C8_ResetAtNextHour ==
  [][\A w \in Workers :
       (resp[w].status # 429 /\ resp'[w].status = 429)
         => /\ resp'[w].reset_at = hour_start(now) + MinutesPerHour
            /\ resp'[w].reset_at > now
            /\ resp'[w].reset_at <= now + MinutesPerHour]_vars

\* C9: a streamed response is a 200 whose Content-Length is the size of the
\* file the transcoder wrote; the chunks are read one after the other from
\* the start of the file, none is empty, all but the last hold 8192 bytes,
\* and once the stream has ended they add up to Content-Length.
C9_StreamIsTheFile ==
  \A w \in Workers :
    resp[w].kind = "audio"
      => /\ resp[w].status = 200
         /\ \E c \in ran[w] : c.tool = "ffmpeg" /\ c.rc = 0 /\ c.out = resp[w].length
         /\ \A i \in 1..Len(gen[w].chunks) :
              /\ gen[w].chunks[i] > 0
              /\ i < Len(gen[w].chunks) => gen[w].chunks[i] = ChunkSize
              /\ gen[w].chunks[i] <= ChunkSize
         /\ gen[w].pos = Sum(gen[w].chunks)
         /\ Sum(gen[w].chunks) <= resp[w].length
         /\ gen[w].state = "exhausted" => Sum(gen[w].chunks) = resp[w].length

\* A stream of a full chunk and a shorter last one has ended.
C9_Witness ==
  \E w \in Workers : /\ gen[w].state = "exhausted"
                     /\ Len(gen[w].chunks) = 2
                     /\ gen[w].chunks[2] < ChunkSize
                     /\ resp[w].length = ChunkSize + 1

\* C10: of the requests of one identity that are inside increment_usage at
\* the same time in one hour bucket no two get the same count, and once a
\* request is back from increment_usage the row holds at least the counts
\* that were returned.
C10_NoLostIncrement ==
  \A w \in Workers : \A r \in loc[w].rivals :
    (loc[w].hour >= 0 /\ r[1] = Key(w))
      => /\ r[2] # loc[w].count
         /\ pc[w] = "quota" => api_usage[Key(w)] >= loc[w].count /\ api_usage[Key(w)] >= r[2]

\* C11: a request whose increment_usage raised (the pool could not be
\* constructed, no connection could be had, the statement failed) is answered
\* 500: it is never answered 429, never passes the quota check, reads no
\* payload, creates no workspace and starts no child process.
C11_StoreFailureSurfaces ==
  \A w \in Workers :
    loc[w].exc
      => /\ pc[w] \in {"release", "done"}
         /\ pc[w] = "release" => resp[w] = NoResp
         /\ pc[w] = "done" => resp[w].status = 500
         /\ resp[w].status # 429
         /\ req[w].body.kind = "unread"
         /\ Workspace(w) = 0
         /\ ran[w] = {}

\* A request found the pool without a connection to give and was answered 500.
C11_Witness ==
  \E w \in Workers : /\ loc[w].exc
                     /\ pc[w] = "done"
                     /\ db_pool # 0
                     /\ loc[w].hour = -1
                     /\ resp[w].status = 500

\* The requests whose verification has failed and been answered.
Refused(w) == /\ req[w].method = "POST"
              /\ req[w].auth \notin ValidHeaders
              /\ pc[w] = "done"

\* C12: every request that fails verification, whatever the cause (no
\* header, another scheme, a token that cannot be parsed, an unknown key,
\* another algorithm, a bad signature, a wrong issuer or audience, expiry, no
\* subject), gets the same response, 401 with the body {"error":
\* "Unauthorized"}, and no exception leaves verify_jwt_and_get_user (none is
\* answered with the 500 of an uncaught exception).
C12_OneUnauthorizedResponse ==
  /\ \A w \in Workers :
       Refused(w) => resp[w] = JsonError(401, "Unauthorized") /\ resp[w] # Uncaught
  /\ \A w, v \in Workers : (Refused(w) /\ Refused(v)) => resp[w] = resp[v]
  /\ \A h \in AllHeaders \ ValidHeaders : falsy_user(verify_jwt_and_get_user(h))

\* A token whose key id the key set does not hold was answered like a
\* missing header.
C12_Witness ==
  \E w \in Workers : /\ Refused(w)
                     /\ req[w].auth.scheme = "Bearer"
                     /\ req[w].auth.token.wf
                     /\ ~req[w].auth.token.kid
                     /\ resp[w] = JsonError(401, "Unauthorized")

\* C13: when the handler has ended without handing out a stream, whatever
\* the failure that ended it (a non-zero exit status, a tool that could not
\* be started, an audio file whose size could not be read), the workspace
\* the request created no longer exists.
C13_WorkspaceRemovedOnEveryExit ==
  \A w \in Workers :
    (pc[w] = "done" /\ Workspace(w) # 0) => ~fs[Workspace(w)]

\* C14: once the stream of a response has ended, by its last chunk or by
\* the consumer going away after some chunks or before the first one, the
\* workspace of the request no longer exists.
C14_WorkspaceRemovedWhenStreamEnds ==
  \A w \in Workers :
    (resp[w].kind = "audio" /\ pc[w] = "closed") => ~fs[Workspace(w)]

\* The response stream of w can still read: it has been handed out and has
\* neither yielded its last chunk nor been closed.
Readable(w) == pc[w] = "streaming" /\ gen[w].state \in {"unstarted", "suspended"}

\* C15: from the moment the size of the audio file is known until the
\* stream has ended or been aborted, the workspace exists and holds the audio
\* file with that size; the requests in the pipeline work in different
\* directories, and a directory is deleted only by a step of the request
\* that created it (its failure, the end of its stream, its abort).
C15_WorkspaceLivesWithStream ==
  /\ [](\A w \in Workers :
          /\ pc[w] \in {"download", "transcode", "ready", "streaming"} => fs[Workspace(w)]
          /\ Readable(w) => audio[w] >= 0 /\ audio[w] = loc[w].mp3_size
          /\ \A v \in Workers \ {w} :
               (Workspace(w) # 0 /\ fs[Workspace(w)]) => Workspace(v) # Workspace(w))
  /\ [][\A d \in DirNames :
          (fs[d] /\ ~fs'[d])
            => \E w \in Workers : /\ Workspace(w) = d
                                  /\ pc[w] \in {"download", "transcode", "streaming"}
                                  /\ pc'[w] \in {"done", "closed"}
                                  /\ ~Readable(w)']_vars

\* While one request was in the middle of its stream, another one deleted
\* its own workspace.
C15_Witness ==
  \E w, v \in Workers : /\ Readable(w)
                        /\ gen[w].state = "suspended"
                        /\ fs[Workspace(w)]
                        /\ pc[v] \in {"done", "closed"}
                        /\ Workspace(v) # 0
                        /\ ~fs[Workspace(v)]

Exited(w, tool, rc) == \E c \in ran[w] : c.tool = tool /\ c.rc = rc

Started(w, tool) == \E c \in ran[w] : c.tool = tool

\* The pipeline states in their order: CREATED (the workspace exists, the
\* downloader is about to run or running), TRANSCODING, READY, STREAMING, and
\* the end (FAILED, CLOSED); 0 outside the pipeline.
Stage(l) == CASE l \in {"download", "wait_yt_dlp"}  -> 1
              [] l \in {"transcode", "wait_ffmpeg"} -> 2
              [] l = "ready"                        -> 3
              [] l = "streaming"                    -> 4
              [] l \in {"done", "closed"}           -> 5
              [] OTHER                              -> 0

\* C16: a request moves through the pipeline states forward only; the
\* transcoder runs only after the downloader has exited 0 and the stream
\* exists only after the transcoder has exited 0; each tool runs at most
\* once; after a non-zero exit of a tool the request is answered 500 with
\* the error "Video download or MP3 encoding failed" and that tool's error
\* output, and no other tool has run after it.
C16_PipelineOrder ==
  /\ [](\A w \in Workers :
          /\ Stage(pc[w]) \in {2, 3, 4} => Exited(w, "yt_dlp", 0)
          /\ Started(w, "ffmpeg") => Exited(w, "yt_dlp", 0)
          /\ Stage(pc[w]) \in {3, 4} => Exited(w, "ffmpeg", 0)
          /\ resp[w].kind = "audio" => Exited(w, "ffmpeg", 0)
          /\ Cardinality(ran[w]) <= 2
          /\ \A c, e \in ran[w] : c.tool = e.tool => c = e
          /\ \A t \in {"yt_dlp", "ffmpeg"} :
               Failed(w, t) => /\ pc[w] = "done"
                               /\ resp[w].status = 500
                               /\ resp[w].kind = "json"
                               /\ resp[w].error = "Video download or MP3 encoding failed"
                               /\ resp[w].details = t
          /\ Failed(w, "yt_dlp") => ~Started(w, "ffmpeg"))
  /\ [][\A w \in Workers :
          /\ (Stage(pc[w]) > 0 /\ pc'[w] # "idle") => Stage(pc'[w]) >= Stage(pc[w])
          /\ (Stage(pc[w]) \in 1..4 /\ pc'[w] # pc[w])
               => Stage(pc'[w]) \in {Stage(pc[w]), Stage(pc[w]) + 1, 5}
          /\ ran'[w] # ran[w] => \/ ran'[w] = {}
                                 \/ pc[w] = "download" /\ ran[w] = {}
                                 \/ pc[w] = "transcode" /\ ran[w] = {Child("yt_dlp", 0, -1)}]_vars

\* The transcoder exited non-zero after the downloader had exited 0, and the
\* request was answered 500 with the transcoder's error output.
C16_Witness ==
  \E w \in Workers : /\ Exited(w, "yt_dlp", 0)
                     /\ Failed(w, "ffmpeg")
                     /\ resp[w].status = 500
                     /\ resp[w].details = "ffmpeg"

\* C17: a request that is past increment_usage has been charged: its upsert
\* ran before the payload was read and before the pipeline, and the row of
\* its identity and hour bucket holds at least the count it was given,
\* whatever the request does or fails at afterwards.
C17_ChargedOnceBeforePayload ==
  \A w \in Workers :
    /\ (req[w].body.kind # "unread" \/ Workspace(w) # 0 \/ ran[w] # {}) => loc[w].count >= 1
    /\ (loc[w].hour >= 0 /\ pc[w] \in {"quota", "payload", "done"})
         => api_usage[Key(w)] >= loc[w].count

\* C18: at most one key-set client and at most one connection pool are ever
\* constructed, and a connection a request holds comes from the pool the
\* global refers to.
C18_SingletonsConstructedOnce ==
  /\ jwk_made <= 1
  /\ Len(pools) <= 1
  /\ \A w \in Workers : loc[w].conn # 0 => loc[w].conn = db_pool

\* C19: a request that is in the pipeline and has not ended is never stuck:
\* some step of its handler or of its stream can be taken (a wait on a child
\* process ends, by the exit of the child or by a timeout).
C19_PipelineNeverStuck ==
  \A w \in Workers :
    Stage(pc[w]) \in 1..4
      => ENABLED (Download(w) \/ Transcode(w) \/ Ready(w) \/ Pull(w) \/ Disconnect(w))

\* The connections the pools count as checked out, and the requests that
\* are inside increment_usage between getconn and the end of the finally block.
CheckedOut == Sum([i \in 1..Len(pools) |-> pools[i].used])

HoldingConn == {w \in Workers : pc[w] \in {"execute", "release"}}

\* C20: a request holds a connection only between getconn and the end of
\* the finally block of increment_usage, and the pools count no more
\* connections as checked out than there are requests in that part: every
\* connection taken has been given back when increment_usage ends, by return
\* or by exception.
C20_ConnectionsReturned ==
  /\ \A w \in Workers : loc[w].conn # 0 => w \in HoldingConn
  /\ CheckedOut <= Cardinality(HoldingConn)

====
